---- MODULE Spec2Model ----
(***************************************************************************)
(* A model of the raga-identification core of raagbodh:                    *)
(*   AudioProcessor.computePitch       (autocorrelation pitch estimate)    *)
(*   AudioProcessor.pitchToNote        (frequency -> swara label)          *)
(*   AudioProcessor.detectRootNoteFromPitchData  (tonic from chroma bins)  *)
(*   AudioProcessor.processAudioData   (note-stream condensation, stats)   *)
(*   RagaEngine.analyze                (scoring and ranking)               *)
(* and of the code that drives it:                                         *)
(*   AudioProcessor.analyzeAudioBuffer (framing of a decoded clip)         *)
(*   App                               (handlers, split at their awaits)   *)
(*   AudioRecorder                     (start, stop, intervals)            *)
(*                                                                         *)
(* Units.  Times are integer milliseconds.  Frequencies are integers in    *)
(* hundredths of a hertz (261.63 Hz is 26163), the silence sentinel -1 is  *)
(* -100 and +Infinity is PosInfinity.  Audio samples are integers in units *)
(* of 1/Unit, so that sums of products of samples are exact.  A            *)
(* normalizedDuration is the exact quotient statsMap[note]/totalDuration,  *)
(* kept as the pair num/den.                                               *)
(***************************************************************************)
EXTENDS Integers, Sequences, FiniteSets, TLC

VARIABLES
    phase,        \* how far the pass under study has run
    pitchData,    \* the { time, note } fields of the observations handed to
                  \* processAudioData (it does not read frequency)
    noteStream,   \* processAudioData(...).noteStream
    noteStats,    \* processAudioData(...).noteStats
    recondensed,  \* the noteStream of processAudioData applied to the
                  \* (timestamp, note) pairs of noteStream
    scores,       \* RagaEngine.analyze(noteStats, noteStream)
    rawPitchData, \* the frequencies handed to detectRootNoteFromPitchData
    bins,         \* its chroma histogram
    detectedRoot, \* its result, an entry of BASE_NOTES
    frame,        \* the samples handed to computePitch
    scan,         \* what computePitch did with them: whether it built the
                  \* autocorrelation c, and the indices of c it read
    sampleRate,   \* and their sample rate, in Hz
    semitones,    \* the interval k of a pitch k semitones from the tonic
    baseFreq,     \* the tonic frequency handed to pitchToNote
    pitch,        \* the frequency handed to pitchToNote
    note,         \* pitchToNote(pitch, baseFreq)
    channelLength, \* channelData.length of the buffer in analyzeAudioBuffer
    offset,       \* its loop variable i, the start of the next frame
    chunk,        \* the index range [from, to) of the frame it sliced last
    results,      \* results.length
    app,          \* the state of the App component (its useState values)
    tasks,        \* the inputs supplied so far, each with the position of
                  \* the handler run that processes it
    runs,         \* the runs of analyzeSelectedStreams
    currentRawPitchData, \* window.currentRawPitchData
    recorder      \* the state, refs, intervals and MediaRecorders of the
                  \* AudioRecorder component

analysisVars == <<pitchData, noteStream, noteStats, recondensed, scores>>
tonicVars == <<rawPitchData, bins, detectedRoot>>
mapperVars == <<frame, scan, sampleRate, semitones, baseFreq, pitch, note>>
bufferVars == <<channelLength, offset, chunk, results>>
appVars == <<app, tasks, runs, currentRawPitchData, recorder>>
vars == <<phase, analysisVars, tonicVars, mapperVars, bufferVars, appVars>>

----------------------------------------------------------------------------
(* Bounds of the model *)

\* longest observation sequence
MaxLen == 4
\* the grid of observation times, in milliseconds
TimeStep == 40
\* an observation comes one or two grid steps after the previous one
Gaps == {1, 2}
\* the labels the observations carry ("-" is silence)
ObsLabels == {"-", "Sa", "Re", "Ga"}
\* most label runs of a sparsely observed clip
MaxRuns == 4
\* the time from one of its observations to the next, in milliseconds
RunGaps == {950, 2500}
\* the labels of its observations
RunLabels == {"Sa", "Ga", "ma", "Dha"}
\* longest frequency sequence handed to the tonic detector
MaxObs == 4
\* the frequencies it may contain: the sentinel, 50 Hz, 1000 Hz, C3, C4,
\* C#4, A4, C5
ObsFreqs == {-100, 5000, 100000, 13081, 26163, 27718, 44000, 52325}
\* intervals of -MaxSemis .. MaxSemis semitones around the tonic
MaxSemis == 30
\* an audio frame has 1 .. FrameLen samples
FrameLen == 4
\* a sample is an integer multiple of 1/Unit
Unit == 128
\* the sample values of the frames: 0, 1/64, 1/2, -1/2
SampleVals == {0, 2, 64, -64}
\* the sample rates of the frames
SampleRates == {44100, 48000}

----------------------------------------------------------------------------
(* types.ts *)

SWARA_MAPPING ==
    <<"Sa", "re", "Re", "ga", "Ga", "ma", "Ma", "Pa", "dha", "Dha", "ni", "Ni">>

Swaras == {SWARA_MAPPING[i] : i \in 1..Len(SWARA_MAPPING)}

BASE_NOTES == <<
    [name |-> "C", freq |-> 26163], [name |-> "C#", freq |-> 27718],
    [name |-> "D", freq |-> 29366], [name |-> "D#", freq |-> 31113],
    [name |-> "E", freq |-> 32963], [name |-> "F", freq |-> 34923],
    [name |-> "F#", freq |-> 36999], [name |-> "G", freq |-> 39200],
    [name |-> "G#", freq |-> 41530], [name |-> "A", freq |-> 44000],
    [name |-> "A#", freq |-> 46616], [name |-> "B", freq |-> 49388] >>

----------------------------------------------------------------------------
(* Array helpers *)

Range(s) == {s[i] : i \in 1..Len(s)}

RECURSIVE SumSeq(_)
SumSeq(s) == IF s = <<>> THEN 0 ELSE Head(s) + SumSeq(Tail(s))

Max(a, b) == IF a >= b THEN a ELSE b

----------------------------------------------------------------------------
(* Numbers *)

\* the silence sentinel -1 (Hz)
Silence == -100

\* +Infinity: above every finite frequency of the model
PosInfinity == 2147483647

Abs(x) == IF x < 0 THEN -x ELSE x

RECURSIVE mulDivFloor(_, _, _)
\* floor(a * b / c) for a, b >= 0 and c > 0, as <<quotient, remainder>>,
\* by binary long multiplication (no intermediate exceeds 2 * c + b)
mulDivFloor(a, b, c) ==
    IF a = 0 THEN <<0, 0>>
    ELSE LET half == mulDivFloor(a \div 2, b, c)
             r == 2 * half[2] + (IF a % 2 = 1 THEN b ELSE 0)
         IN <<2 * half[1] + (r \div c), r % c>>

\* round(1000 * 2^((k + 1/2) / 12)) for k = 0 .. 11: a frequency ratio in
\* [1, 2) rounds to as many semitones as there are edges at or below it
SemitoneEdges ==
    <<1029, 1091, 1155, 1224, 1297, 1374, 1456, 1542, 1634, 1731, 1834, 1943>>

RECURSIVE roundSemitones(_, _)
\* Math.round(12 * Math.log2(p / b)) for finite p > 0 and b > 0
roundSemitones(p, b) ==
    IF p >= 2 * b THEN 12 + roundSemitones(p \div 2, b)
    ELSE IF p < b THEN roundSemitones(2 * p, b) - 12
    ELSE Cardinality({j \in 1..12 : p * 1000 >= b * SemitoneEdges[j]})

\* the % operator of JavaScript: the result has the sign of the dividend
jsRem(a, n) == IF a >= 0 THEN a % n ELSE -((-a) % n)

\* (variant: the remainder is taken once, without the + 12 correction)
remainderOnly(rounded) == jsRem(rounded, 12)

\* ((roundedSemitones % 12) + 12) % 12
normalizedIndex(rounded) == jsRem(jsRem(rounded, 12) + 12, 12)

\* SWARA_MAPPING[index]; an index that is no element index reads undefined
swaraAt(index) ==
    IF index \in 0..11 THEN SWARA_MAPPING[index + 1] ELSE "undefined"

----------------------------------------------------------------------------
(* AudioProcessor.computePitch *)

\* buffer[i], 0-based
at0(buffer, i) == buffer[i + 1]

\* (variant: the silence floor is 0.005)
tooQuietLowerFloor(buffer) ==
    40000 * SumSeq([i \in 1..Len(buffer) |-> buffer[i] * buffer[i]])
        < Len(buffer) * Unit * Unit

\* Math.sqrt(sum of squares / length) < 0.01
tooQuiet(buffer) ==
    10000 * SumSeq([i \in 1..Len(buffer) |-> buffer[i] * buffer[i]])
        < Len(buffer) * Unit * Unit

\* Math.abs(x) < thres, thres = 0.2
belowThres(x) == 5 * Abs(x) < Unit

\* the indices i = lo, lo + 1, ... with 2 * i < N
halfIndices(buffer, lo) == {i \in lo..Len(buffer) : 2 * i < Len(buffer)}

\* first loop: r1 = first i < N/2 with |buffer[i]| < thres, else 0
r1Of(buffer) ==
    LET hits == {i \in halfIndices(buffer, 0) : belowThres(at0(buffer, i))}
    IN IF hits = {} THEN 0 ELSE CHOOSE i \in hits : \A h \in hits : i <= h

\* second loop: r2 = N - i for the first i in 1 .. < N/2 with
\* |buffer[N - i]| < thres, else N - 1
r2Of(buffer) ==
    LET N == Len(buffer)
        hits == {i \in halfIndices(buffer, 1) : belowThres(at0(buffer, N - i))}
    IN IF hits = {} THEN N - 1
       ELSE N - (CHOOSE i \in hits : \A h \in hits : i <= h)

\* buffer.slice(r1, r2)
slice(buffer, from, to) ==
    IF to <= from THEN <<>> ELSE SubSeq(buffer, from + 1, to)

\* c[i] = sum over j < len - i of buf2[j] * buf2[j + i]; c is 0-based
autocorrelation(buf2) ==
    [i \in 0..(Len(buf2) - 1) |->
        SumSeq([j \in 1..(Len(buf2) - i) |-> buf2[j] * buf2[j + i]])]

\* c[i] > c[j]: a comparison with undefined (an index outside c) is false
gtAt(c, i, j) == i \in DOMAIN c /\ j \in DOMAIN c /\ c[i] > c[j]

RECURSIVE scanDown(_, _)
\* while (c[d] > c[d + 1]) d++
scanDown(c, d) == IF gtAt(c, d, d + 1) THEN scanDown(c, d + 1) ELSE d

RECURSIVE maxLoop(_, _, _, _)
\* for (i = d; i < len; i++) if (c[i] > maxval) { maxval = c[i]; maxpos = i }
maxLoop(c, len, i, best) ==
    IF i >= len THEN best
    ELSE maxLoop(c, len, i + 1,
            IF c[i] > best.maxval THEN [maxval |-> c[i], maxpos |-> i] ELSE best)

\* T0 after the parabolic refinement, as the fraction num / den, den > 0.
\* x1, x2, x3 = c[T0 - 1], c[T0], c[T0 + 1]; with one of them undefined a
\* is NaN, which is falsy, and T0 stays maxpos.
refinedPeriod(c, maxpos) ==
    IF {maxpos - 1, maxpos, maxpos + 1} \subseteq DOMAIN c
    THEN LET x1 == c[maxpos - 1]
             x2 == c[maxpos]
             x3 == c[maxpos + 1]
             twoA == x1 + x3 - 2 * x2
             twoB == x3 - x1
         IN IF twoA # 0
            THEN IF twoA > 0
                 THEN [num |-> 2 * twoA * maxpos - twoB, den |-> 2 * twoA]
                 ELSE [num |-> twoB - 2 * twoA * maxpos, den |-> -2 * twoA]
            ELSE [num |-> maxpos, den |-> 1]
    ELSE [num |-> maxpos, den |-> 1]

\* sampleRate / T0 in hundredths of a hertz, rounded toward zero
quotient(rate, T0) ==
    IF T0.num = 0 THEN PosInfinity
    ELSE IF T0.num > 0 THEN mulDivFloor(rate * 100, T0.den, T0.num)[1]
    ELSE -(mulDivFloor(rate * 100, T0.den, -T0.num)[1])

\* the work of a call that returned at "Too quiet"
noScan == [correlated |-> FALSE, r1 |-> 0, r2 |-> 0, len |-> 0, d |-> 0,
           scanReads |-> {}, reads |-> {}]

\* The work of computePitch(buffer, ...): whether c was built, the trim
\* bounds r1 and r2, the length of c, the index d at which the while loop stopped, the indices of c that loop
\* read (c[d] and c[d + 1] at each test) and the indices of c read in all
\* (the loop, the maximum search over d .. len - 1, and x1, x2, x3)
computePitchScan(buffer) ==
    IF tooQuiet(buffer) THEN noScan
    ELSE LET buf2 == slice(buffer, r1Of(buffer), r2Of(buffer))
             c == autocorrelation(buf2)
             d == scanDown(c, 0)
             best == maxLoop(c, Len(buf2), d,
                             [maxval |-> -(Unit * Unit), maxpos |-> -1])
         IN [correlated |-> TRUE, r1 |-> r1Of(buffer), r2 |-> r2Of(buffer),
             len |-> Len(buf2), d |-> d,
             scanReads |-> 0..(d + 1),
             reads |-> (0..(d + 1)) \cup (d..(Len(buf2) - 1))
                          \cup {best.maxpos - 1, best.maxpos, best.maxpos + 1}]

computePitch(buffer, rate) ==
    IF tooQuiet(buffer) THEN Silence
    ELSE LET buf2 == slice(buffer, r1Of(buffer), r2Of(buffer))
             c == autocorrelation(buf2)
             d == scanDown(c, 0)
             best == maxLoop(c, Len(buf2), d,
                             [maxval |-> -(Unit * Unit), maxpos |-> -1])
         IN quotient(rate, refinedPeriod(c, best.maxpos))

----------------------------------------------------------------------------
(* AudioProcessor.pitchToNote *)

\* Math.log2 of a frequency that is zero, negative or infinite is
\* -Infinity, NaN or Infinity; rounding and % 12 then give NaN, and
\* SWARA_MAPPING[NaN] is undefined
pitchToNote(p, base) ==
    IF p = Silence THEN "-"
    ELSE IF p <= 0 \/ p = PosInfinity THEN "undefined"
    ELSE swaraAt(normalizedIndex(roundSemitones(p, base)))

----------------------------------------------------------------------------
(* AudioProcessor.detectRootNoteFromPitchData *)

\* (variant: the ends of the range count)
inRangeInclusive(f) == f >= 5000 /\ f <= 100000

\* p.frequency > 50 && p.frequency < 1000
inRange(f) == f > 5000 /\ f < 100000

\* ((Math.round(12 * Math.log2(f / 261.63)) % 12) + 12) % 12
chromaOf(f) == normalizedIndex(roundSemitones(f, 26163))

RECURSIVE binLoop(_, _)
\* pitchData.forEach: bins[chroma]++ and validSamples++
binLoop(pd, acc) ==
    IF pd = <<>> THEN acc
    ELSE LET f == Head(pd).frequency IN
         binLoop(Tail(pd),
            IF inRange(f)
            THEN [bins |-> [acc.bins EXCEPT ![chromaOf(f)] = @ + 1],
                  validSamples |-> acc.validSamples + 1]
            ELSE acc)

RECURSIVE maxBinLastWins(_, _, _)
\* (variant: bins[i] >= maxVal, so the last of several greatest bins wins)
maxBinLastWins(b, i, best) ==
    IF i >= 12 THEN best.maxBin
    ELSE maxBinLastWins(b, i + 1,
            IF b[i] >= best.maxVal THEN [maxVal |-> b[i], maxBin |-> i] ELSE best)

RECURSIVE maxBinLoop(_, _, _)
\* for (i = 0; i < 12; i++) if (bins[i] > maxVal) { maxVal = bins[i]; maxBin = i }
maxBinLoop(b, i, best) ==
    IF i >= 12 THEN best.maxBin
    ELSE maxBinLoop(b, i + 1,
            IF b[i] > best.maxVal THEN [maxVal |-> b[i], maxBin |-> i] ELSE best)

\* the histogram and the returned BASE_NOTES entry
detectRootNoteFromPitchData(pd) ==
    LET acc == binLoop(pd, [bins |-> [c \in 0..11 |-> 0], validSamples |-> 0])
    IN [bins |-> acc.bins,
        root |-> IF acc.validSamples = 0 THEN BASE_NOTES[1]
                 ELSE BASE_NOTES[maxBinLoop(acc.bins, 0,
                                    [maxVal |-> 0, maxBin |-> 0]) + 1]]

----------------------------------------------------------------------------
(* AudioProcessor.processAudioData *)

RECURSIVE condenseLoopFromZero(_, _, _, _, _)
\* (variant: a note's duration is the time at which the next run begins)
condenseLoopFromZero(pd, i, currentNote, startTime, acc) ==
    IF i > Len(pd)
    THEN [currentNote |-> currentNote, startTime |-> startTime, condensed |-> acc]
    ELSE IF pd[i].note = currentNote
    THEN condenseLoopFromZero(pd, i + 1, currentNote, startTime, acc)
    ELSE condenseLoopFromZero(pd, i + 1, pd[i].note, pd[i].time,
            IF currentNote # "-"
            THEN Append(acc, [note |-> currentNote,
                              timestamp |-> startTime,
                              duration |-> pd[i].time])
            ELSE acc)

RECURSIVE condenseLoopToRunEnd(_, _, _, _, _)
\* (variant: a note ends at the last observation of its own run)
condenseLoopToRunEnd(pd, i, currentNote, startTime, acc) ==
    IF i > Len(pd)
    THEN [currentNote |-> currentNote, startTime |-> startTime, condensed |-> acc]
    ELSE IF pd[i].note = currentNote
    THEN condenseLoopToRunEnd(pd, i + 1, currentNote, startTime, acc)
    ELSE condenseLoopToRunEnd(pd, i + 1, pd[i].note, pd[i].time,
            IF currentNote # "-"
            THEN Append(acc, [note |-> currentNote,
                              timestamp |-> startTime,
                              duration |-> pd[i - 1].time - startTime])
            ELSE acc)

RECURSIVE condenseLoop(_, _, _, _, _)
\* the for loop over pitchData[1..] (0-based), here i is 1-based
condenseLoop(pd, i, currentNote, startTime, acc) ==
    IF i > Len(pd)
    THEN [currentNote |-> currentNote, startTime |-> startTime, condensed |-> acc]
    ELSE IF pd[i].note = currentNote
    THEN condenseLoop(pd, i + 1, currentNote, startTime, acc)
    ELSE condenseLoop(pd, i + 1, pd[i].note, pd[i].time,
            IF currentNote # "-"
            THEN Append(acc, [note |-> currentNote,
                              timestamp |-> startTime,
                              duration |-> pd[i].time - startTime])
            ELSE acc)

\* (variant: the last note's duration has no 50 ms floor)
pushLastNoFloor(pd, st) ==
    IF st.currentNote # "-" /\ Len(pd) > 0
    THEN Append(st.condensed,
                [note |-> st.currentNote,
                 timestamp |-> st.startTime,
                 duration |-> pd[Len(pd)].time - st.startTime])
    ELSE st.condensed

\* "Push last note"
pushLast(pd, st) ==
    IF st.currentNote # "-" /\ Len(pd) > 0
    THEN Append(st.condensed,
                [note |-> st.currentNote,
                 timestamp |-> st.startTime,
                 duration |-> Max(50, pd[Len(pd)].time - st.startTime)])
    ELSE st.condensed

\* the condensed array before noise filtering (pd non-empty)
condense(pd) ==
    pushLast(pd, condenseLoop(pd, 2, pd[1].note, pd[1].time, <<>>))

\* the test guarding statistics accumulation
statsKeep(n) == n.duration > 40

\* (variant: a 40 ms note passes the returned stream's filter)
streamKeepInclusive(n) == n.duration >= 40

\* the test of the returned stream's filter
streamKeep(n) == n.duration > 40

RECURSIVE accumulateUnfilteredTotal(_, _)
\* (variant: totalDuration grows for every condensed note, kept or not)
accumulateUnfilteredTotal(condensed, acc) ==
    IF condensed = <<>> THEN acc
    ELSE LET n == Head(condensed) IN
         accumulateUnfilteredTotal(Tail(condensed),
            [statsMap |-> IF statsKeep(n)
                          THEN [acc.statsMap EXCEPT ![n.note] = @ + n.duration]
                          ELSE acc.statsMap,
             totalDuration |-> acc.totalDuration + n.duration])

RECURSIVE accumulate(_, _)
\* condensed.forEach: statsMap and totalDuration
accumulate(condensed, acc) ==
    IF condensed = <<>> THEN acc
    ELSE LET n == Head(condensed) IN
         accumulate(Tail(condensed),
            IF statsKeep(n)
            THEN [statsMap |-> [acc.statsMap EXCEPT ![n.note] = @ + n.duration],
                  totalDuration |-> acc.totalDuration + n.duration]
            ELSE acc)

\* statsMap[note] / totalDuration, or the literal 0
normalized(total, grand) ==
    IF grand > 0 THEN [num |-> total, den |-> grand] ELSE [num |-> 0, den |-> 1]

\* Object.keys(statsMap).map(...): keys in insertion order
makeStats(acc) ==
    [i \in 1..Len(SWARA_MAPPING) |->
        [note |-> SWARA_MAPPING[i],
         duration |-> acc.statsMap[SWARA_MAPPING[i]],
         normalizedDuration |->
            normalized(acc.statsMap[SWARA_MAPPING[i]], acc.totalDuration)]]

processAudioData(pd) ==
    IF Len(pd) = 0 THEN [noteStream |-> <<>>, noteStats |-> <<>>]
    ELSE LET condensed == condense(pd)
             acc == accumulate(condensed,
                        [statsMap |-> [n \in Swaras |-> 0], totalDuration |-> 0])
         IN [noteStream |-> SelectSeq(condensed, streamKeep),
             noteStats |-> makeStats(acc)]

----------------------------------------------------------------------------
(* constants.ts, the raga corpus.  The table itself is data outside the    *)
(* modelled sources; RagaEngine.analyze reads it entry by entry.  The      *)
(* model uses a five-entry corpus with the fields of the Raga interface:   *)
(* pakad is either one sequence (nested = FALSE) or a list of alternative  *)
(* sequences (nested = TRUE), phrases is optional.                         *)

RAGA_DATA == <<
    [id |-> "bhupali", vaadi |-> "Ga", samvaadi |-> "Dha",
     aaroh |-> <<"Sa", "Re", "Ga", "Pa", "Dha">>,
     avaroh |-> <<"Dha", "Pa", "Ga", "Re", "Sa">>,
     pakad |-> [nested |-> FALSE, seq |-> <<"Ga", "Re", "Sa">>],
     phrases |-> << <<"Sa", "Re", "Ga">>, <<"Re", "Ga">> >>],
    [id |-> "durga", vaadi |-> "Ma", samvaadi |-> "Sa",
     aaroh |-> <<"Sa", "Re", "ma", "Pa", "Dha">>,
     avaroh |-> <<"Dha", "Pa", "ma", "Re", "Sa">>,
     pakad |-> [nested |-> FALSE, seq |-> <<"Re", "ma", "Pa">>]],
    [id |-> "yaman", vaadi |-> "Ga", samvaadi |-> "Ni",
     aaroh |-> <<"Ni", "Re", "Ga", "Ma", "Dha", "Ni", "Sa">>,
     avaroh |-> <<"Sa", "Ni", "Dha", "Pa", "Ma", "Ga", "Re", "Sa">>,
     pakad |-> [nested |-> TRUE,
                alts |-> << <<"Ni", "Re", "Ga">>, <<"Ga", "Re", "Sa">> >>],
     phrases |-> << <<"Re", "Sa">> >>],
    [id |-> "deshkar", vaadi |-> "Dha", samvaadi |-> "Ga",
     aaroh |-> <<"Sa", "Re", "Ga", "Pa", "Dha">>,
     avaroh |-> <<"Dha", "Pa", "Ga", "Re", "Sa">>,
     pakad |-> [nested |-> FALSE, seq |-> <<"Re", "Ga">>],
     phrases |-> << <<"Sa", "Ga">> >>],
    [id |-> "todi", vaadi |-> "dha", samvaadi |-> "ga",
     aaroh |-> <<"Sa", "re", "ga", "Ma", "dha", "Ni">>,
     avaroh |-> <<"Ni", "dha", "Pa", "Ma", "ga", "re", "Sa">>,
     pakad |-> [nested |-> TRUE, alts |-> << <<"re", "ga">>, <<"Sa", "re">> >>]]
>>

----------------------------------------------------------------------------
(* Strings: a swara label is the sequence of its characters *)

Spell == [Sa |-> <<"S", "a">>, re |-> <<"r", "e">>, Re |-> <<"R", "e">>,
          ga |-> <<"g", "a">>, Ga |-> <<"G", "a">>, ma |-> <<"m", "a">>,
          Ma |-> <<"M", "a">>, Pa |-> <<"P", "a">>,
          dha |-> <<"d", "h", "a">>, Dha |-> <<"D", "h", "a">>,
          ni |-> <<"n", "i">>, Ni |-> <<"N", "i">>]

RECURSIVE join(_)
\* Array.prototype.join(" ")
join(tokens) ==
    IF tokens = <<>> THEN <<>>
    ELSE IF Len(tokens) = 1 THEN Spell[tokens[1]]
    ELSE Spell[tokens[1]] \o <<" ">> \o join(Tail(tokens))

\* String.prototype.includes
includes(hay, needle) ==
    \E off \in 0..(Len(hay) - Len(needle)) :
        \A j \in 1..Len(needle) : hay[off + j] = needle[j]

----------------------------------------------------------------------------
(* Array.prototype.sort with comparator (a, b) => b[key] - a[key].         *)
(* The sort is stable (ECMAScript 2019): elements whose keys are equal     *)
(* keep their order.                                                       *)

RECURSIVE insertDesc(_, _, _)
\* x goes before the first element whose key is smaller than its own
insertDesc(sorted, x, key) ==
    IF sorted = <<>> THEN <<x>>
    ELSE IF x[key] > Head(sorted)[key] THEN <<x>> \o sorted
    ELSE <<Head(sorted)>> \o insertDesc(Tail(sorted), x, key)

RECURSIVE sortDesc(_, _)
sortDesc(s, key) ==
    IF s = <<>> THEN <<>>
    ELSE insertDesc(sortDesc(SubSeq(s, 1, Len(s) - 1), key), s[Len(s)], key)

----------------------------------------------------------------------------
(* RagaEngine.analyze *)

\* [...noteStats].sort((a, b) => b.duration - a.duration)
sortedNotesOf(stats) == sortDesc(stats, "duration")

\* (variant: only the top two notes are taken)
dominantNotesTopTwo(sorted) ==
    [i \in 1..(IF Len(sorted) < 2 THEN Len(sorted) ELSE 2) |-> sorted[i].note]

\* sortedNotes.slice(0, 3).map(n => n.note)
dominantNotesOf(sorted) ==
    [i \in 1..(IF Len(sorted) < 3 THEN Len(sorted) ELSE 3) |-> sorted[i].note]

\* noteStream.map(n => n.note).join(" ")
streamStringOf(stream) == join([i \in 1..Len(stream) |-> stream[i].note])

\* (variant: a share of exactly 0.05 counts)
significantInclusive(n) ==
    n.normalizedDuration.num * 100 >= 5 * n.normalizedDuration.den

\* n.normalizedDuration > 0.05
significant(n) == n.normalizedDuration.num * 100 > 5 * n.normalizedDuration.den

RECURSIVE overlapLoop(_, _, _)
\* sortedNotes.forEach: presentNotesScore and forbiddenPenalty
overlapLoop(sorted, ragaNotes, acc) ==
    IF sorted = <<>> THEN acc
    ELSE LET n == Head(sorted) IN
         overlapLoop(Tail(sorted), ragaNotes,
            IF significant(n)
            THEN IF n.note \in ragaNotes
                 THEN [acc EXCEPT !.presentNotesScore = @ + 2]
                 ELSE [acc EXCEPT !.forbiddenPenalty = @ + 5]
            ELSE acc)

\* Array.isArray(raga.pakad[0]) ? raga.pakad : [raga.pakad]
pakadsOf(raga) == IF raga.pakad.nested THEN raga.pakad.alts ELSE <<raga.pakad.seq>>

\* raga.phrases || []
phrasesOf(raga) == IF "phrases" \in DOMAIN raga THEN raga.phrases ELSE <<>>

allPatternsOf(raga) == pakadsOf(raga) \o phrasesOf(raga)

RECURSIVE isSubsequence(_, _)
isSubsequence(hay, needle) ==
    IF needle = <<>> THEN TRUE
    ELSE IF hay = <<>> THEN FALSE
    ELSE IF Head(hay) = Head(needle) THEN isSubsequence(Tail(hay), Tail(needle))
    ELSE isSubsequence(Tail(hay), needle)

\* (variant: receiver and argument of includes are exchanged)
patternMatchesSwapped(streamString, pattern) ==
    includes(join(pattern), streamString)

\* (variant: the pattern's characters occur in order, gaps allowed)
patternMatchesLoosely(streamString, pattern) ==
    isSubsequence(streamString, join(pattern))

\* streamString.includes(pattern.join(" "))
patternMatches(streamString, pattern) == includes(streamString, join(pattern))

\* (variant: a phrase match is worth 10)
creditPhraseTen(st) ==
    [st EXCEPT !.score = @ + 10, !.details.phraseMatches = @ + 1]

\* the body of the if: score += 20; details.phraseMatches++
creditPhrase(st) ==
    [st EXCEPT !.score = @ + 20, !.details.phraseMatches = @ + 1]

RECURSIVE phraseLoop(_, _, _)
phraseLoop(patterns, streamString, st) ==
    IF patterns = <<>> THEN st
    ELSE phraseLoop(Tail(patterns), streamString,
            IF patternMatches(streamString, Head(patterns))
            THEN creditPhrase(st) ELSE st)

\* one iteration of "for (const raga of RAGA_DATA)"
scoreRaga(raga, sortedNotes, dominantNotes, streamString) ==
    LET st0 == [score |-> 0,
                details |-> [vaadiMatch |-> FALSE, samvaadiMatch |-> FALSE,
                             phraseMatches |-> 0, noteOverlapScore |-> 0]]
        st1 == IF raga.vaadi \in Range(dominantNotes)
               THEN [st0 EXCEPT !.score = @ + 10, !.details.vaadiMatch = TRUE]
               ELSE st0
        st2 == IF raga.samvaadi \in Range(dominantNotes)
               THEN [st1 EXCEPT !.score = @ + 10, !.details.samvaadiMatch = TRUE]
               ELSE st1
        ragaNotes == Range(raga.aaroh) \cup Range(raga.avaroh)
        ov == overlapLoop(sortedNotes, ragaNotes,
                          [presentNotesScore |-> 0, forbiddenPenalty |-> 0])
        noteOverlapScore == ov.presentNotesScore - ov.forbiddenPenalty
        st3 == [st2 EXCEPT !.details.noteOverlapScore = noteOverlapScore,
                           !.score = @ + noteOverlapScore]
        st4 == phraseLoop(allPatternsOf(raga), streamString, st3)
    IN [raga |-> raga.id, score |-> st4.score, matchDetails |-> st4.details]

RECURSIVE insertDescBeforeTies(_, _)
insertDescBeforeTies(sorted, x) ==
    IF sorted = <<>> THEN <<x>>
    ELSE IF x.score >= Head(sorted).score THEN <<x>> \o sorted
    ELSE <<Head(sorted)>> \o insertDescBeforeTies(Tail(sorted), x)

RECURSIVE rankScoresUnstable(_)
\* (variant: a sort that puts an element before those of equal score)
rankScoresUnstable(unsorted) ==
    IF unsorted = <<>> THEN <<>>
    ELSE insertDescBeforeTies(
            rankScoresUnstable(SubSeq(unsorted, 1, Len(unsorted) - 1)),
            unsorted[Len(unsorted)])

\* return scores.sort((a, b) => b.score - a.score)
rankScores(unsorted) == sortDesc(unsorted, "score")

analyze(stats, stream) ==
    LET sortedNotes == sortedNotesOf(stats)
        dominantNotes == dominantNotesOf(sortedNotes)
        streamString == streamStringOf(stream)
    IN rankScores([i \in 1..Len(RAGA_DATA) |->
            scoreRaga(RAGA_DATA[i], sortedNotes, dominantNotes, streamString)])

----------------------------------------------------------------------------
(* Initial values of the variables a pass does not use *)

analysisIdle ==
    /\ pitchData = <<>> /\ noteStream = <<>> /\ noteStats = <<>>
    /\ recondensed = <<>> /\ scores = <<>>

tonicIdle ==
    /\ rawPitchData = <<>>
    /\ bins = [c \in 0..11 |-> 0]
    /\ detectedRoot = [name |-> "", freq |-> 0]

mapperIdle ==
    /\ frame = <<>> /\ scan = noScan /\ sampleRate = 0 /\ semitones = 0
    /\ baseFreq = 0 /\ pitch = 0 /\ note = ""

\* no frame sliced yet
noChunk == [from |-> -1, to |-> -1]

bufferIdle ==
    channelLength = 0 /\ offset = 0 /\ chunk = noChunk /\ results = 0

\* const [...] = useState(...) of App; null is 0 for sourceAudioBuffer and
\* the empty sequence for analysisResult (a result is a one-element sequence)
appInitial ==
    [step |-> "SELECT_BASE_NOTE",
     baseFreq |-> BASE_NOTES[1].freq,
     selectedNoteName |-> "C",
     isAutoDetect |-> FALSE,
     hasBaseNote |-> FALSE,
     analysisResult |-> <<>>,
     ragaScores |-> <<>>,
     streams |-> <<>>,
     showSeparation |-> FALSE,
     sourceAudioBuffer |-> 0]

\* AudioRecorder as mounted: no call of startRecording yet.  An interval
\* and a MediaRecorder are named by the call that created them (0: none);
\* rawData is the array in rawDataRef.current, named by the call that
\* assigned it, and the number of samples pushed to it.
recorderInitial ==
    [mounted |-> TRUE,
     isRecording |-> FALSE,
     calls |-> <<>>,
     intervalRef |-> 0,
     collectIntervalRef |-> 0,
     progressIntervals |-> {},
     collectIntervals |-> {},
     mediaRecorderRef |-> 0,
     recording |-> {},
     stopping |-> {},
     rawData |-> [array |-> 0, length |-> 0],
     stopRan |-> FALSE]

appIdle ==
    /\ app = appInitial /\ tasks = <<>> /\ runs = <<>>
    /\ currentRawPitchData = <<>>
    /\ recorder = recorderInitial

----------------------------------------------------------------------------
(* The analysis pass: observations arrive, processAudioData condenses      *)
(* them, RagaEngine.analyze ranks the corpus (App.analyzeSelectedStreams). *)

lastTime == IF pitchData = <<>> THEN 0 ELSE pitchData[Len(pitchData)].time

Init ==
    /\ phase = "input"
    /\ analysisIdle /\ tonicIdle /\ mapperIdle /\ bufferIdle /\ appIdle

\* one more { time, note } entry of the pitch trace
Observe ==
    /\ phase = "input"
    /\ Len(pitchData) < MaxLen
    /\ \E g \in Gaps, n \in ObsLabels :
          pitchData' = Append(pitchData,
                              [time |-> lastTime + g * TimeStep, note |-> n])
    /\ UNCHANGED <<phase, noteStream, noteStats, recondensed, scores,
                   tonicVars, mapperVars,
                   bufferVars, appVars>>

\* const { noteStream, noteStats } = AudioProcessor.processAudioData(newPitchData)
Process ==
    /\ phase = "input"
    /\ LET out == processAudioData(pitchData) IN
          /\ noteStream' = out.noteStream
          /\ noteStats' = out.noteStats
    /\ phase' = "processed"
    /\ UNCHANGED <<pitchData, recondensed, scores, tonicVars, mapperVars,
                   bufferVars, appVars>>

\* const scores = RagaEngine.analyze(noteStats, noteStream)
Analyze ==
    /\ phase = "processed"
    /\ scores' = analyze(noteStats, noteStream)
    /\ phase' = "analyzed"
    /\ UNCHANGED <<pitchData, noteStream, noteStats, recondensed,
                   tonicVars, mapperVars,
                   bufferVars, appVars>>

\* the (timestamp, note) pairs of a note stream, as pitch observations
asPitchData(stream) ==
    [i \in 1..Len(stream) |->
        [time |-> stream[i].timestamp, note |-> stream[i].note]]

\* AudioProcessor.processAudioData applied to its own noteStream
Recondense ==
    /\ phase = "processed"
    /\ recondensed' = processAudioData(asPitchData(noteStream)).noteStream
    /\ phase' = "recondensed"
    /\ UNCHANGED <<pitchData, noteStream, noteStats, scores,
                   tonicVars, mapperVars,
                   bufferVars, appVars>>

Next == Observe \/ Process \/ Analyze \/ Recondense

Spec == Init /\ [][Next]_vars

----------------------------------------------------------------------------
(* The analysis pass over a long clip.  processAudioData skips every       *)
(* observation whose label equals the current run's, and reads the time of *)
(* the last one: the clip is given by the observations that open a run or  *)
(* close the clip, up to several seconds apart.                            *)

\* one more { time, note } entry, a run later
ObserveRun ==
    /\ phase = "input"
    /\ Len(pitchData) < MaxRuns
    /\ \E g \in RunGaps, n \in RunLabels :
          pitchData' = Append(pitchData, [time |-> lastTime + g, note |-> n])
    /\ UNCHANGED <<phase, noteStream, noteStats, recondensed, scores,
                   tonicVars, mapperVars,
                   bufferVars, appVars>>

NextClip == ObserveRun \/ Process \/ Analyze

SpecClip == Init /\ [][NextClip]_vars

----------------------------------------------------------------------------
(* One iteration of the scoring loop over a clip that climbs the twelve    *)
(* swaras, for a raga definition of the corpus or one whose aaroh and      *)
(* avaroh hold every swara (the Raga interface bounds neither).            *)

\* most observations of the climbing clip
MaxClimb == 12

\* a definition with all twelve swaras in its scale
chromatic ==
    [id |-> "chromatic", vaadi |-> "Sa", samvaadi |-> "Pa",
     aaroh |-> SWARA_MAPPING,
     avaroh |-> [i \in 1..Len(SWARA_MAPPING) |->
                    SWARA_MAPPING[Len(SWARA_MAPPING) + 1 - i]],
     pakad |-> [nested |-> FALSE, seq |-> <<"Sa", "re", "Re">>]]

\* the definitions the loop body is run for
Definitions == Range(RAGA_DATA) \cup {chromatic}

\* one more { time, note } entry: the next swara of the table, a run later
ObserveClimb ==
    /\ phase = "input"
    /\ Len(pitchData) < MaxClimb
    /\ \E g \in RunGaps :
          pitchData' = Append(pitchData,
              [time |-> lastTime + g,
               note |-> SWARA_MAPPING[(Len(pitchData) % Len(SWARA_MAPPING)) + 1]])
    /\ UNCHANGED <<phase, noteStream, noteStats, recondensed, scores,
                   tonicVars, mapperVars,
                   bufferVars, appVars>>

\* the body of "for (const raga of RAGA_DATA)" for one definition
ScoreDefinition ==
    /\ phase = "processed"
    /\ \E raga \in Definitions :
          LET sortedNotes == sortedNotesOf(noteStats) IN
             scores' = <<scoreRaga(raga, sortedNotes, dominantNotesOf(sortedNotes),
                                   streamStringOf(noteStream))>>
    /\ phase' = "analyzed"
    /\ UNCHANGED <<pitchData, noteStream, noteStats, recondensed,
                   tonicVars, mapperVars,
                   bufferVars, appVars>>

NextClimb == ObserveClimb \/ Process \/ ScoreDefinition

SpecClimb == Init /\ [][NextClimb]_vars

----------------------------------------------------------------------------
(* processAudioData over observations whose times do not decrease: an      *)
(* observation may carry the time of the one before it.                    *)

\* the time from one observation to the next, in milliseconds
LooseGaps == {0, 40, 80}

\* one more { time, note } entry, no earlier than the last
ObserveLoose ==
    /\ phase = "input"
    /\ Len(pitchData) < MaxLen
    /\ \E g \in LooseGaps, n \in ObsLabels :
          pitchData' = Append(pitchData, [time |-> lastTime + g, note |-> n])
    /\ UNCHANGED <<phase, noteStream, noteStats, recondensed, scores,
                   tonicVars, mapperVars,
                   bufferVars, appVars>>

NextLoose == ObserveLoose \/ Process

SpecLoose == Init /\ [][NextLoose]_vars

----------------------------------------------------------------------------
(* components/AudioRecorder.tsx.  The button calls startRecording while    *)
(* isRecording is false and stopRecording while it is true; isRecording    *)
(* becomes true only after the awaits of startRecording.                   *)

\* calls of startRecording in one behaviour
MaxStarts == 2
\* samples pushed to one rawData array
MaxSamples == 2

recorderOnly ==
    <<phase, analysisVars, tonicVars, mapperVars, bufferVars,
      app, tasks, runs, currentRawPitchData>>

\* startRecording up to await navigator.mediaDevices.getUserMedia
startRecording ==
    /\ recorder.mounted
    /\ ~recorder.isRecording
    /\ Len(recorder.calls) < MaxStarts
    /\ recorder' = [recorder EXCEPT
          !.calls = Append(@, [pc |-> "getUserMedia", completions |-> 0])]
    /\ UNCHANGED recorderOnly

\* getUserMedia rejected: the catch of startRecording
startFailed(id) ==
    /\ recorder.calls[id].pc = "getUserMedia"
    /\ recorder' = [recorder EXCEPT !.calls[id].pc = "failed"]
    /\ UNCHANGED recorderOnly

\* startRecording after its awaits: the MediaRecorder is created and
\* started, rawDataRef.current is a new array, both intervals are set
recordingStarted(id) ==
    /\ recorder.calls[id].pc = "getUserMedia"
    /\ recorder' = [recorder EXCEPT
          !.calls[id].pc = "started",
          !.mediaRecorderRef = id,
          !.recording = @ \cup {id},
          !.isRecording = TRUE,
          !.rawData = [array |-> id, length |-> 0],
          !.stopRan = FALSE,
          !.intervalRef = id,
          !.progressIntervals = @ \cup {id},
          !.collectIntervalRef = id,
          !.collectIntervals = @ \cup {id}]
    /\ UNCHANGED recorderOnly

\* a tick of a pitch collection interval: rawDataRef.current.push(...)
collectPitch(id) ==
    /\ id \in recorder.collectIntervals
    /\ recorder.rawData.length < MaxSamples
    /\ recorder' = [recorder EXCEPT !.rawData.length = @ + 1]
    /\ UNCHANGED recorderOnly

\* stopRecording(): clearInterval of the two intervals in the refs; stop()
\* of the MediaRecorder in the ref unless it is inactive, with onstop set;
\* otherwise setIsRecording(false)
stopRecording(rec) ==
    LET cleared == [rec EXCEPT
            !.progressIntervals = @ \ {rec.intervalRef},
            !.collectIntervals = @ \ {rec.collectIntervalRef},
            !.stopRan = TRUE]
    IN IF rec.mediaRecorderRef \in rec.recording
       THEN [cleared EXCEPT !.recording = @ \ {rec.mediaRecorderRef},
                            !.stopping = @ \cup {rec.mediaRecorderRef}]
       ELSE [cleared EXCEPT !.isRecording = FALSE]

\* the user clicks the button while isRecording
stopClick ==
    /\ recorder.mounted
    /\ recorder.isRecording
    /\ recorder' = stopRecording(recorder)
    /\ UNCHANGED recorderOnly

\* a tick of a progress interval with elapsed >= 20000: stopRecording()
autoStop(id) ==
    /\ id \in recorder.progressIntervals
    /\ recorder' = stopRecording(recorder)
    /\ UNCHANGED recorderOnly

\* the stop event of a MediaRecorder: setIsRecording(false) and
\* onProcessingComplete(rawDataRef.current, audioBlob)
onstop(id) ==
    /\ id \in recorder.stopping
    /\ recorder' = [recorder EXCEPT
          !.stopping = @ \ {id},
          !.isRecording = FALSE,
          !.calls[id].completions = @ + 1]
    /\ UNCHANGED recorderOnly

\* App leaves the RECORDING step after a completion: the cleanup of
\* useEffect clears the intervals in the refs
unmount ==
    /\ recorder.mounted
    /\ \E id \in 1..Len(recorder.calls) : recorder.calls[id].completions > 0
    /\ recorder' = [recorder EXCEPT
          !.mounted = FALSE,
          !.progressIntervals = @ \ {recorder.intervalRef},
          !.collectIntervals = @ \ {recorder.collectIntervalRef}]
    /\ UNCHANGED recorderOnly

NextRecorder ==
    \/ startRecording
    \/ stopClick
    \/ unmount
    \/ \E id \in 1..Len(recorder.calls) :
          \/ startFailed(id)
          \/ recordingStarted(id)
          \/ collectPitch(id)
          \/ autoStop(id)
          \/ onstop(id)

SpecRecorder == Init /\ [][NextRecorder]_vars

----------------------------------------------------------------------------
(* Tonic detection: frequencies arrive, detectRootNoteFromPitchData picks  *)
(* the tonic (App.handleAudioData, automatic mode).                        *)

InitTonic ==
    /\ phase = "input"
    /\ analysisIdle /\ tonicIdle /\ mapperIdle /\ bufferIdle /\ appIdle

\* one more { frequency } entry of the raw pitch data
Sample ==
    /\ phase = "input"
    /\ Len(rawPitchData) < MaxObs
    /\ \E f \in ObsFreqs :
          rawPitchData' = Append(rawPitchData, [frequency |-> f])
    /\ UNCHANGED <<phase, bins, detectedRoot, analysisVars, mapperVars,
                   bufferVars, appVars>>

\* const detectedRoot = AudioProcessor.detectRootNoteFromPitchData(rawPitchData)
Detect ==
    /\ phase = "input"
    /\ LET out == detectRootNoteFromPitchData(rawPitchData) IN
          /\ bins' = out.bins
          /\ detectedRoot' = out.root
    /\ phase' = "detected"
    /\ UNCHANGED <<rawPitchData, analysisVars, mapperVars,
                   bufferVars, appVars>>

NextTonic == Sample \/ Detect

SpecTonic == InitTonic /\ [][NextTonic]_vars

----------------------------------------------------------------------------
(* Note mapping of a pitch that lies k semitones from the tonic *)

\* round(10000 * 2^(j / 12)) for j = 0 .. 11
SemitoneRatios ==
    <<10000, 10595, 11225, 11892, 12599, 13348,
      14142, 14983, 15874, 16818, 17818, 18877>>

RECURSIVE shiftOctaves(_, _)
shiftOctaves(f, o) ==
    IF o = 0 THEN f
    ELSE IF o > 0 THEN shiftOctaves(2 * f, o - 1)
    ELSE shiftOctaves(f \div 2, o + 1)

\* t * 2^(k / 12), in hundredths of a hertz
semitonesAbove(t, k) ==
    shiftOctaves((t * SemitoneRatios[(k % 12) + 1]) \div 10000, k \div 12)

baseFreqs == {BASE_NOTES[i].freq : i \in 1..Len(BASE_NOTES)}

InitMap ==
    /\ phase = "input"
    /\ analysisIdle /\ tonicIdle /\ bufferIdle /\ appIdle
    /\ frame = <<>> /\ scan = noScan /\ sampleRate = 0 /\ pitch = 0
    /\ note = ""
    /\ semitones \in (-MaxSemis)..MaxSemis
    /\ baseFreq \in baseFreqs

\* the frequency under test: semitones above (or below) the tonic
Transpose ==
    /\ phase = "input"
    /\ pitch' = semitonesAbove(baseFreq, semitones)
    /\ phase' = "pitched"
    /\ UNCHANGED <<frame, scan, sampleRate, semitones, baseFreq, note,
                   analysisVars, tonicVars,
                   bufferVars, appVars>>

\* const note = AudioProcessor.pitchToNote(pitch, baseFreq)
MapNote ==
    /\ phase = "pitched"
    /\ note' = pitchToNote(pitch, baseFreq)
    /\ phase' = "mapped"
    /\ UNCHANGED <<frame, scan, sampleRate, semitones, baseFreq, pitch,
                   analysisVars, tonicVars,
                   bufferVars, appVars>>

NextMap == Transpose \/ MapNote

SpecMap == InitMap /\ [][NextMap]_vars

----------------------------------------------------------------------------
(* One frame: computePitch, then pitchToNote (AudioRecorder's collection   *)
(* interval, AudioProcessor.analyzeAudioBuffer).                           *)

InitPitch ==
    /\ phase = "input"
    /\ analysisIdle /\ tonicIdle /\ bufferIdle /\ appIdle
    /\ semitones = 0 /\ pitch = 0 /\ note = "" /\ scan = noScan
    /\ frame \in UNION {[1..n -> SampleVals] : n \in 1..FrameLen}
    /\ sampleRate \in SampleRates
    /\ baseFreq \in baseFreqs

\* const pitch = AudioProcessor.computePitch(chunk, sampleRate)
Estimate ==
    /\ phase = "input"
    /\ pitch' = computePitch(frame, sampleRate)
    /\ scan' = computePitchScan(frame)
    /\ phase' = "pitched"
    /\ UNCHANGED <<frame, sampleRate, semitones, baseFreq, note,
                   analysisVars, tonicVars,
                   bufferVars, appVars>>

NextPitch == Estimate \/ MapNote

SpecPitch == InitPitch /\ [][NextPitch]_vars

----------------------------------------------------------------------------
(* AudioProcessor.analyzeAudioBuffer: the loop that slices the frames.     *)
(* The samples themselves are left out: a frame is the index range it      *)
(* covers, and each iteration pushes one result.                           *)

bufferSize == 2048
hopSize == 1024
\* "Limit to first 45 seconds"
limitSeconds == 45

Min(a, b) == IF a <= b THEN a ELSE b

\* (variant: the whole buffer is analysed)
maxSamplesUnlimited(length, rate) == length

\* Math.min(channelData.length, sampleRate * 45)
maxSamplesOf(length, rate) == Min(length, rate * limitSeconds)

\* buffer lengths: empty, one sample short of a frame, one frame, two
\* frames, and lengths around and beyond the 45-second mark
ClipSamples(rate) ==
    {0, bufferSize - 1, bufferSize, bufferSize + hopSize,
     rate * limitSeconds - 1, rate * limitSeconds,
     rate * limitSeconds + bufferSize, rate * (limitSeconds + 15)}

InitBuffer ==
    /\ phase = "input"
    /\ analysisIdle /\ tonicIdle /\ appIdle
    /\ frame = <<>> /\ scan = noScan /\ semitones = 0 /\ pitch = 0
    /\ note = "" /\ baseFreq = BASE_NOTES[1].freq
    /\ sampleRate \in SampleRates
    /\ channelLength \in ClipSamples(sampleRate)
    /\ offset = 0 /\ chunk = noChunk /\ results = 0

\* one iteration: i < maxSamples, no break, slice(i, i + bufferSize),
\* computePitch and pitchToNote on the chunk, results.push, i += hopSize
Slice ==
    /\ phase = "input"
    /\ offset < maxSamplesOf(channelLength, sampleRate)
    /\ ~(offset + bufferSize > channelLength)
    /\ chunk' = [from |-> offset, to |-> offset + bufferSize]
    /\ results' = results + 1
    /\ offset' = offset + hopSize
    /\ UNCHANGED <<phase, channelLength, analysisVars, tonicVars, mapperVars,
                   appVars>>

\* the loop ends (its test fails or the break is taken): return results
Return ==
    /\ phase = "input"
    /\ \/ ~(offset < maxSamplesOf(channelLength, sampleRate))
       \/ offset + bufferSize > channelLength
    /\ phase' = "returned"
    /\ UNCHANGED <<bufferVars, analysisVars, tonicVars, mapperVars, appVars>>

NextBuffer == Slice \/ Return

SpecBuffer == InitBuffer /\ [][NextBuffer]_vars

----------------------------------------------------------------------------
(* App.tsx: the handlers of the App component.  A handler that awaits is   *)
(* one action per stretch between two awaits (or timers); a continuation   *)
(* runs with the state values its closure captured when the handler was    *)
(* called.  Playback, download, the library view and processingStatus are  *)
(* left out: no handler below reads them.                                  *)

\* inputs (recordings, uploads, simulations) supplied in one behaviour
MaxInputs == 2
\* runs of analyzeSelectedStreams in one behaviour
MaxAnalyses == 1
\* the audio clips the user has at hand and the pitch of their frames:
\* clip 1 is D4 D5, clip 2 is G4 G4
Clips == {1, 2}
ClipFreqs == << <<29366, 58732>>, <<39200, 39200>> >>
\* the base note the user picks by hand: E (C is the initial baseFreq)
SelectableNotes == {5}
\* the stream whose selection the user toggles: the vocal stream, the only
\* one getDefaultStreams() selects
ToggledStreams == {1}

\* (i / sampleRate) * 1000 for the frame at i = k * hopSize, at 44100 Hz
frameTime(k) == (k * hopSize * 1000) \div 44100

\* AudioProcessor.analyzeAudioBuffer(buffer of the clip, base): one
\* { time, frequency, note } per frame (filtering by renderMixedAudio is
\* taken to leave the pitch of the frames as it is)
analyzeAudioBuffer(clip, base) ==
    [i \in 1..Len(ClipFreqs[clip]) |->
        [time |-> frameTime(i - 1),
         frequency |-> ClipFreqs[clip][i],
         note |-> pitchToNote(ClipFreqs[clip][i], base)]]

\* handleYoutube: the first notes of its list, one frame per note, 50 ms
\* apart, each at 440 Hz
syntheticNotes == <<"Ni", "Re", "Ga">>

syntheticData ==
    [i \in 1..Len(syntheticNotes) |->
        [time |-> (i - 1) * 50, frequency |-> 44000, note |-> syntheticNotes[i]]]

\* getDefaultStreams(): id and selected of each stream
getDefaultStreams ==
    <<[id |-> "voc", selected |-> TRUE],
      [id |-> "drn", selected |-> FALSE],
      [id |-> "noi", selected |-> FALSE]>>

\* rawPitchData.forEach(p => { p.note = pitchToNote(p.frequency, base) })
relabel(pd, base) ==
    [i \in 1..Len(pd) |-> [pd[i] EXCEPT !.note = pitchToNote(pd[i].frequency, base)]]

InitApp ==
    /\ phase = "input"
    /\ analysisIdle /\ tonicIdle /\ mapperIdle /\ bufferIdle /\ appIdle

appOnly == <<phase, analysisVars, tonicVars, mapperVars, bufferVars, recorder>>

handleBaseNoteSelect ==
    /\ app.step = "SELECT_BASE_NOTE"
    /\ \E n \in SelectableNotes :
          app' = [app EXCEPT !.baseFreq = BASE_NOTES[n].freq,
                             !.selectedNoteName = BASE_NOTES[n].name,
                             !.hasBaseNote = TRUE,
                             !.isAutoDetect = FALSE,
                             !.step = "INPUT_METHOD"]
    /\ UNCHANGED <<tasks, runs, currentRawPitchData, appOnly>>

handleAutoDetectSelect ==
    /\ app.step = "SELECT_BASE_NOTE"
    /\ app' = [app EXCEPT !.isAutoDetect = TRUE,
                          !.hasBaseNote = FALSE,
                          !.step = "INPUT_METHOD"]
    /\ UNCHANGED <<tasks, runs, currentRawPitchData, appOnly>>

\* the Change button of the header, shown while hasBaseNote
handleManualSaChange ==
    /\ app.hasBaseNote
    /\ app' = [app EXCEPT !.step = "SELECT_BASE_NOTE",
                          !.hasBaseNote = FALSE,
                          !.analysisResult = <<>>,
                          !.ragaScores = <<>>,
                          !.showSeparation = FALSE,
                          !.streams = <<>>]
    /\ UNCHANGED <<tasks, runs, currentRawPitchData, appOnly>>

\* onReset of RagaResults, shown at RESULTS with an analysisResult
resetApp ==
    /\ app.step = "RESULTS" /\ app.analysisResult # <<>>
    /\ app' = [app EXCEPT !.step = "SELECT_BASE_NOTE",
                          !.analysisResult = <<>>,
                          !.ragaScores = <<>>,
                          !.showSeparation = FALSE,
                          !.isAutoDetect = FALSE,
                          !.hasBaseNote = FALSE,
                          !.sourceAudioBuffer = 0,
                          !.streams = <<>>]
    /\ UNCHANGED <<tasks, runs, currentRawPitchData, appOnly>>

\* onClick={() => setStep(AppStep.RECORDING)}
showRecorder ==
    /\ app.step = "INPUT_METHOD"
    /\ app' = [app EXCEPT !.step = "RECORDING"]
    /\ UNCHANGED <<tasks, runs, currentRawPitchData, appOnly>>

\* a new input: the handler run that processes it, with the isAutoDetect
\* and baseFreq of the render whose closure it is
newTask(kind, clip, pc, raw) ==
    [kind |-> kind, clip |-> clip, pc |-> pc,
     isAutoDetect |-> app.isAutoDetect, baseFreq |-> app.baseFreq,
     currentBaseFreq |-> app.baseFreq,
     rawPitchData |-> raw, detections |-> 0]

\* AudioRecorder calls onProcessingComplete(rawDataRef.current, audioBlob):
\* the notes were mapped with the baseFreq prop; handleAudioData runs up
\* to its first await (audioSource.arrayBuffer())
recordingComplete ==
    /\ app.step = "RECORDING"
    /\ Len(tasks) < MaxInputs
    /\ \E c \in Clips :
          tasks' = Append(tasks, newTask("recording", c, "decode",
                                         analyzeAudioBuffer(c, app.baseFreq)))
    /\ UNCHANGED <<app, runs, currentRawPitchData, appOnly>>

\* handleFileUpload up to its first await (file.arrayBuffer())
handleFileUpload ==
    /\ app.step = "INPUT_METHOD"
    /\ Len(tasks) < MaxInputs
    /\ \E c \in Clips :
          tasks' = Append(tasks, newTask("upload", c, "upload", <<>>))
    /\ app' = [app EXCEPT !.step = "SEPARATION", !.showSeparation = FALSE]
    /\ UNCHANGED <<runs, currentRawPitchData, appOnly>>

\* handleYoutube up to its setTimeout (the prompt returned a URL)
handleYoutube ==
    /\ app.step = "INPUT_METHOD"
    /\ Len(tasks) < MaxInputs
    /\ tasks' = Append(tasks, newTask("youtube", 0, "youtube", <<>>))
    /\ app' = [app EXCEPT !.step = "SEPARATION", !.showSeparation = FALSE]
    /\ UNCHANGED <<runs, currentRawPitchData, appOnly>>

\* handleFileUpload after decodeAudioData and its 100 ms timer:
\* analyzeAudioBuffer(audioBuffer, baseFreq), then handleAudioData(pitchData,
\* file) up to its first await (audioSource.arrayBuffer())
uploadAnalysed(k) ==
    /\ tasks[k].pc = "upload"
    /\ tasks' = [tasks EXCEPT
          ![k].rawPitchData = analyzeAudioBuffer(tasks[k].clip, tasks[k].baseFreq),
          ![k].pc = "decode"]
    /\ UNCHANGED <<app, runs, currentRawPitchData, appOnly>>

\* handleFileUpload: decoding or analysis threw (either catch)
uploadFailed(k) ==
    /\ tasks[k].pc = "upload"
    /\ tasks' = [tasks EXCEPT ![k].pc = "done"]
    /\ app' = [app EXCEPT !.step = "INPUT_METHOD"]
    /\ UNCHANGED <<runs, currentRawPitchData, appOnly>>

\* handleAudioData from the decoding of the Blob to the next await: the
\* 800 ms pause, or detectLayers when not auto-detecting.  The decoding
\* of a recording may fail; an uploaded file was decoded by
\* handleFileUpload before.
audioDecoded(k) ==
    /\ tasks[k].pc = "decode"
    /\ \E decodedBuffer \in IF tasks[k].kind = "upload" THEN {k} ELSE {0, k} :
          app' = [app EXCEPT
              !.sourceAudioBuffer = IF decodedBuffer = 0 THEN @ ELSE decodedBuffer,
              !.step = "SEPARATION",
              !.showSeparation = FALSE,
              !.hasBaseNote = IF tasks[k].isAutoDetect THEN @ ELSE TRUE]
    /\ tasks' = [tasks EXCEPT
          ![k].pc = IF tasks[k].isAutoDetect THEN "wait800" ELSE "layers"]
    /\ UNCHANGED <<runs, currentRawPitchData, appOnly>>

\* the timer of handleYoutube: handleAudioData(syntheticData), which has no
\* audio source, up to the 800 ms pause or, when not auto-detecting, to
\* its end
youtubeTimer(k) ==
    /\ tasks[k].pc = "youtube"
    /\ IF tasks[k].isAutoDetect
       THEN /\ app' = [app EXCEPT !.step = "SEPARATION", !.showSeparation = FALSE]
            /\ tasks' = [tasks EXCEPT ![k].rawPitchData = syntheticData,
                                      ![k].pc = "wait800"]
            /\ UNCHANGED currentRawPitchData
       ELSE /\ app' = [app EXCEPT !.step = "SEPARATION",
                                  !.showSeparation = FALSE,
                                  !.hasBaseNote = TRUE,
                                  !.streams = getDefaultStreams]
            /\ tasks' = [tasks EXCEPT ![k].rawPitchData = syntheticData,
                                      ![k].pc = "timer"]
            /\ currentRawPitchData' = syntheticData
    /\ UNCHANGED <<runs, appOnly>>

\* "Auto-Detect Sa Logic", after the 800 ms pause
detectRoot(k) ==
    /\ tasks[k].pc = "wait800"
    /\ LET detected == detectRootNoteFromPitchData(tasks[k].rawPitchData).root IN
          /\ app' = [app EXCEPT !.baseFreq = detected.freq,
                                !.selectedNoteName = detected.name,
                                !.hasBaseNote = TRUE]
          /\ tasks' = [tasks EXCEPT ![k].currentBaseFreq = detected.freq,
                                    ![k].detections = @ + 1,
                                    ![k].pc = "wait600"]
    /\ UNCHANGED <<runs, currentRawPitchData, appOnly>>

\* "Update raw pitch data", after the 600 ms pause, up to detectLayers
\* (a Blob) or to the end of handleAudioData (no audio source)
updateRawPitchData(k) ==
    /\ tasks[k].pc = "wait600"
    /\ LET updated == relabel(tasks[k].rawPitchData, tasks[k].currentBaseFreq) IN
          IF tasks[k].kind = "youtube"
          THEN /\ tasks' = [tasks EXCEPT ![k].rawPitchData = updated,
                                         ![k].pc = "timer"]
               /\ app' = [app EXCEPT !.streams = getDefaultStreams]
               /\ currentRawPitchData' = updated
          ELSE /\ tasks' = [tasks EXCEPT ![k].rawPitchData = updated,
                                         ![k].pc = "layers"]
               /\ UNCHANGED <<app, currentRawPitchData>>
    /\ UNCHANGED <<runs, appOnly>>

\* detectLayers settled (its result, or getDefaultStreams() when it threw):
\* setStreams, the 1500 ms timer is set, the raw data is kept on window
layersDetected(k) ==
    /\ tasks[k].pc = "layers"
    /\ app' = [app EXCEPT !.streams = getDefaultStreams]
    /\ tasks' = [tasks EXCEPT ![k].pc = "timer"]
    /\ currentRawPitchData' = tasks[k].rawPitchData
    /\ UNCHANGED <<runs, appOnly>>

\* the 1500 ms timer of handleAudioData
separationTimer(k) ==
    /\ tasks[k].pc = "timer"
    /\ app' = [app EXCEPT !.showSeparation = TRUE]
    /\ tasks' = [tasks EXCEPT ![k].pc = "done"]
    /\ UNCHANGED <<runs, currentRawPitchData, appOnly>>

\* the separation panel is shown at SEPARATION once showSeparation is set
panelShown == app.step = "SEPARATION" /\ app.showSeparation

toggleStreamSelection ==
    /\ panelShown
    /\ \E i \in ToggledStreams \cap (1..Len(app.streams)) :
          app' = [app EXCEPT !.streams[i].selected = ~@]
    /\ UNCHANGED <<tasks, runs, currentRawPitchData, appOnly>>

\* analyzeSelectedStreams up to await renderMixedAudio(selected); with no
\* stream selected it alerts and returns to SEPARATION
analyzeSelectedStreams ==
    /\ panelShown
    /\ Len(runs) < MaxAnalyses
    /\ IF \A i \in 1..Len(app.streams) : ~app.streams[i].selected
       THEN UNCHANGED <<app, runs>>
       ELSE /\ app' = [app EXCEPT !.step = "PROCESSING"]
            /\ runs' = Append(runs,
                  [pc |-> "rendering",
                   sourceAudioBuffer |-> app.sourceAudioBuffer,
                   baseFreq |-> app.baseFreq,
                   isAutoDetect |-> app.isAutoDetect,
                   latestInput |-> Len(tasks),
                   detections |-> 0,
                   pitchData |-> <<>>])
    /\ UNCHANGED <<tasks, currentRawPitchData, appOnly>>

\* analyzeSelectedStreams after the rendering: without a source buffer it
\* throws and returns to SEPARATION; otherwise analyzeAudioBuffer,
\* processAudioData and RagaEngine.analyze run and the step is RESULTS.
\* The run keeps what it analysed, how often the tonic of that input had
\* been detected by then, and (latestInput) which input was the last one
\* supplied when the run began.
analysisRendered(r) ==
    /\ runs[r].pc = "rendering"
    /\ IF runs[r].sourceAudioBuffer = 0
       THEN /\ app' = [app EXCEPT !.step = "SEPARATION"]
            /\ runs' = [runs EXCEPT ![r].pc = "failed"]
       ELSE LET input == tasks[runs[r].sourceAudioBuffer]
                newPitchData == analyzeAudioBuffer(input.clip, runs[r].baseFreq)
                out == processAudioData(newPitchData)
            IN /\ app' = [app EXCEPT
                      !.analysisResult = <<[pitchData |-> newPitchData,
                                            noteStream |-> out.noteStream,
                                            noteStats |-> out.noteStats]>>,
                      !.ragaScores = analyze(out.noteStats, out.noteStream),
                      !.step = "RESULTS"]
               /\ runs' = [runs EXCEPT ![r].pc = "done",
                                       ![r].pitchData = newPitchData,
                                       ![r].detections = input.detections]
    /\ UNCHANGED <<tasks, currentRawPitchData, appOnly>>

NextApp ==
    \/ handleBaseNoteSelect
    \/ handleAutoDetectSelect
    \/ handleManualSaChange
    \/ resetApp
    \/ showRecorder
    \/ recordingComplete
    \/ handleFileUpload
    \/ handleYoutube
    \/ \E k \in 1..Len(tasks) :
          \/ uploadAnalysed(k)
          \/ uploadFailed(k)
          \/ audioDecoded(k)
          \/ youtubeTimer(k)
          \/ detectRoot(k)
          \/ updateRawPitchData(k)
          \/ layersDetected(k)
          \/ separationTimer(k)
    \/ toggleStreamSelection
    \/ analyzeSelectedStreams
    \/ \E r \in 1..Len(runs) : analysisRendered(r)

SpecApp == InitApp /\ [][NextApp]_vars

----------------------------------------------------------------------------
(* Properties of the analysis pass *)

processed == phase \in {"processed", "analyzed"}
analyzed == phase = "analyzed"

corpusIndex(id) == CHOOSE i \in 1..Len(RAGA_DATA) : RAGA_DATA[i].id = id
ragaOf(id) == RAGA_DATA[corpusIndex(id)]

\* the observed stream as a sequence of swara tokens
streamLabels == [i \in 1..Len(noteStream) |-> noteStream[i].note]

\* pat occurs in toks as a contiguous run of whole tokens
tokenRun(toks, pat) ==
    \E off \in 0..(Len(toks) - Len(pat)) :
        \A j \in 1..Len(pat) : toks[off + j] = pat[j]

RECURSIVE tokenSubsequence(_, _)
tokenSubsequence(toks, pat) ==
    IF pat = <<>> THEN TRUE
    ELSE IF toks = <<>> THEN FALSE
    ELSE IF Head(toks) = Head(pat) THEN tokenSubsequence(Tail(toks), Tail(pat))
    ELSE tokenSubsequence(Tail(toks), pat)

scoreEntry(id) == scores[CHOOSE j \in 1..Len(scores) : scores[j].raga = id]

b2i(b) == IF b THEN 1 ELSE 0

(* C1: RagaEngine.analyze returns exactly one RagaScore per raga of the    *)
(* corpus, in order of non-increasing score, and two ragas whose scores    *)
(* are equal keep the relative order they have in the corpus.              *)
C1_RankedStable ==
    analyzed =>
        /\ Len(scores) = Len(RAGA_DATA)
        /\ \A i \in 1..Len(RAGA_DATA) :
              Cardinality({j \in 1..Len(scores) : scores[j].raga = RAGA_DATA[i].id}) = 1
        /\ \A j \in 1..(Len(scores) - 1) : scores[j].score >= scores[j + 1].score
        /\ \A j, k \in 1..Len(scores) :
              (j < k /\ scores[j].score = scores[k].score)
                 => corpusIndex(scores[j].raga) < corpusIndex(scores[k].raga)

\* a ranking that differs from corpus order and contains a tie
C1_Witness ==
    /\ analyzed
    /\ \E j, k \in 1..Len(scores) :
          j < k /\ corpusIndex(scores[j].raga) > corpusIndex(scores[k].raga)
    /\ \E j \in 1..(Len(scores) - 1) :
          /\ scores[j].score = scores[j + 1].score
          /\ scores[j].score > scores[Len(scores)].score

(* C2: every returned score equals 10 for a vaadi match plus 10 for a      *)
(* samvaadi match plus noteOverlapScore plus 20 per phrase match, as       *)
(* recorded in that entry's matchDetails; the sum is not clamped.          *)
C2_ScoreIsSumOfDetails ==
    analyzed =>
        \A j \in 1..Len(scores) :
            LET d == scores[j].matchDetails IN
            scores[j].score =
                10 * b2i(d.vaadiMatch) + 10 * b2i(d.samvaadiMatch)
                    + d.noteOverlapScore + 20 * d.phraseMatches

\* one pass with a negative score and a score with every term present
C2_Witness ==
    /\ analyzed
    /\ \E j \in 1..Len(scores) : scores[j].score < 0
    /\ \E j \in 1..Len(scores) :
          LET d == scores[j].matchDetails IN
          d.vaadiMatch /\ d.phraseMatches >= 2 /\ d.noteOverlapScore > 0

\* the pakad (or each of its alternatives) followed by the phrases
C3_Candidates(raga) ==
    (IF raga.pakad.nested THEN raga.pakad.alts ELSE <<raga.pakad.seq>>)
        \o (IF "phrases" \in DOMAIN raga THEN raga.phrases ELSE <<>>)

(* C3: phraseMatches of a raga is the number of its candidate patterns     *)
(* (pakad or pakad alternatives, then phrases) whose tokens occur in the   *)
(* observed label sequence as a contiguous run of whole tokens.            *)
C3_PhraseMatchesAreTokenRuns ==
    analyzed =>
        \A j \in 1..Len(scores) :
            LET pats == C3_Candidates(ragaOf(scores[j].raga)) IN
            scores[j].matchDetails.phraseMatches =
                Cardinality({p \in 1..Len(pats) : tokenRun(streamLabels, pats[p])})

\* a stream where one pattern matches, another occurs only with a gap
\* (deshkar: Sa Ga) and another only reversed (bhupali: Ga Re Sa)
C3_Witness ==
    /\ analyzed
    /\ streamLabels = <<"Sa", "Re", "Ga">>
    /\ scoreEntry("deshkar").matchDetails.phraseMatches = 1
    /\ scoreEntry("bhupali").matchDetails.phraseMatches = 2
    /\ tokenSubsequence(streamLabels, <<"Sa", "Ga">>)

(* C4: processAudioData returns exactly 12 NoteStat entries, one per swara *)
(* in swara-table order, for every input including the empty one; for the *)
(* empty input the stream is empty and all 12 entries are zero.            *)
C4_TwelveStatsAlways ==
    processed =>
        /\ Len(noteStats) = 12
        /\ \A i \in 1..Len(noteStats) : noteStats[i].note = SWARA_MAPPING[i]
        /\ pitchData = <<>> =>
              /\ noteStream = <<>>
              /\ \A i \in 1..Len(noteStats) :
                    noteStats[i].duration = 0 /\ noteStats[i].normalizedDuration.num = 0

\* total duration of the returned (retained) notes
retainedTotal == SumSeq([i \in 1..Len(noteStream) |-> noteStream[i].duration])

(* C5: every normalizedDuration lies in [0,1]; when the total retained     *)
(* duration is positive the normalizedDurations sum to 1 (the per-swara    *)
(* totals sum to the divisor), otherwise all of them are 0.                *)
C5_NormalizedSumsToOne ==
    processed =>
        /\ \A i \in 1..Len(noteStats) :
              LET nd == noteStats[i].normalizedDuration IN
              nd.den > 0 /\ 0 <= nd.num /\ nd.num <= nd.den
        /\ retainedTotal > 0 =>
              /\ \A i \in 1..Len(noteStats) :
                    /\ noteStats[i].normalizedDuration.den = retainedTotal
                    /\ noteStats[i].normalizedDuration.num = noteStats[i].duration
              /\ SumSeq([i \in 1..Len(noteStats) |-> noteStats[i].duration])
                    = retainedTotal
        /\ retainedTotal = 0 =>
              \A i \in 1..Len(noteStats) : noteStats[i].normalizedDuration.num = 0

\* two swaras share a positive total while a transient was dropped
C5_Witness ==
    /\ processed
    /\ retainedTotal > 0
    /\ Cardinality({i \in 1..Len(noteStats) :
                        noteStats[i].normalizedDuration.num > 0}) >= 2
    /\ Len(condense(pitchData)) > Len(noteStream)

\* sum of the durations of the returned notes carrying swara s
streamTotal(s) ==
    SumSeq([i \in 1..Len(noteStream) |->
                IF noteStream[i].note = s THEN noteStream[i].duration ELSE 0])

C14_Refed ==
    /\ phase = "recondensed"
    /\ \A i \in 1..(Len(noteStream) - 1) :
          noteStream[i].note # noteStream[i + 1].note
    /\ \A i \in 1..Len(noteStream) : noteStream[i].duration > 40

(* C14: condensation is idempotent: feeding processAudioData the           *)
(* (timestamp, note) pairs of a note stream it returned, which has no two  *)
(* adjacent equal labels and only durations above 40 ms, returns the same  *)
(* note stream: same labels, timestamps and durations.                     *)
C14_Idempotent == C14_Refed => recondensed = noteStream

(* C14, amended: the stream returned for the fed-back pairs has the same   *)
(* labels and timestamps; the duration of every note but the last is the   *)
(* gap to the next note's timestamp, which is never shorter than the       *)
(* original duration, and the duration of the last note is 50 ms.          *)
C14_LabelsAndTimesKept ==
    C14_Refed =>
        /\ Len(recondensed) = Len(noteStream)
        /\ \A i \in 1..Len(noteStream) :
              /\ recondensed[i].note = noteStream[i].note
              /\ recondensed[i].timestamp = noteStream[i].timestamp
              /\ i < Len(noteStream) =>
                    /\ recondensed[i].duration =
                          noteStream[i + 1].timestamp - noteStream[i].timestamp
                    /\ recondensed[i].duration >= noteStream[i].duration
              /\ i = Len(noteStream) => recondensed[i].duration = 50

\* two notes with a silence between them: the first one's duration grows
C14_Witness ==
    /\ C14_Refed
    /\ Len(noteStream) = 2
    /\ Len(recondensed) = 2
    /\ recondensed[1].duration > noteStream[1].duration
    /\ noteStream[2].duration > 50

\* the whole input is one run of Sa spanning 5000 ms
C15_UniformSa ==
    /\ pitchData # <<>>
    /\ \A i \in 1..Len(pitchData) : pitchData[i].note = "Sa"
    /\ lastTime - pitchData[1].time = 5000

\* every alternative of the raga's pakad has more than one token
C15_LongPakad(raga) ==
    IF raga.pakad.nested
    THEN \A a \in 1..Len(raga.pakad.alts) : Len(raga.pakad.alts[a]) > 1
    ELSE Len(raga.pakad.seq) > 1

C16_Significant ==
    {i \in 1..Len(noteStats) :
        20 * noteStats[i].normalizedDuration.num
            > noteStats[i].normalizedDuration.den}

\* the union of the raga's aaroh and avaroh
C16_Scale(raga) ==
    {raga.aaroh[i] : i \in 1..Len(raga.aaroh)}
        \cup {raga.avaroh[i] : i \in 1..Len(raga.avaroh)}

(* C16: for every raga noteOverlapScore is 2 * (number of swaras with      *)
(* normalizedDuration strictly above 0.05 that belong to the union of its  *)
(* aaroh and avaroh) minus 5 * (number of such swaras that do not belong   *)
(* to it); swaras at or below 0.05 contribute nothing and a negative value *)
(* is stored unchanged.                                                    *)
C16_NoteOverlap ==
    analyzed =>
        \A j \in 1..Len(scores) :
            LET scale == C16_Scale(ragaOf(scores[j].raga)) IN
            scores[j].matchDetails.noteOverlapScore =
                2 * Cardinality({i \in C16_Significant : noteStats[i].note \in scale})
                  - 5 * Cardinality({i \in C16_Significant :
                                        noteStats[i].note \notin scale})

\* a sounding swara at exactly 0.05, a negative and a positive overlap
C16_Witness ==
    /\ analyzed
    /\ \E i \in 1..Len(noteStats) :
          /\ noteStats[i].duration > 0
          /\ 20 * noteStats[i].normalizedDuration.num
                = noteStats[i].normalizedDuration.den
    /\ \E j \in 1..Len(scores) : scores[j].matchDetails.noteOverlapScore < 0
    /\ \E j \in 1..Len(scores) : scores[j].matchDetails.noteOverlapScore > 0

\* how many stats come before stat i in descending order of duration,
\* equal durations in input order
C17_Rank(i) ==
    Cardinality({k \in 1..Len(noteStats) :
        \/ noteStats[k].duration > noteStats[i].duration
        \/ noteStats[k].duration = noteStats[i].duration /\ k < i})

\* the swaras of the first three
C17_Dominant == {noteStats[i].note : i \in {k \in 1..Len(noteStats) : C17_Rank(k) < 3}}

(* C17: dominantNotes is the first three swaras of the NoteStat set sorted *)
(* by descending total duration, ties in input order; vaadiMatch is true   *)
(* exactly when raga.vaadi is one of the three, samvaadiMatch exactly when *)
(* raga.samvaadi is, and each true match adds 10 to the score.             *)
C17_DominantNotes ==
    analyzed =>
        LET dominantNotes == dominantNotesOf(sortedNotesOf(noteStats))
            dominant == C17_Dominant
        IN /\ Len(dominantNotes) = Cardinality(dominant)
           /\ \A r \in 1..Len(dominantNotes) :
                 \E i \in 1..Len(noteStats) :
                     C17_Rank(i) = r - 1 /\ noteStats[i].note = dominantNotes[r]
           /\ \A j \in 1..Len(scores) :
                 LET raga == ragaOf(scores[j].raga)
                     d == scores[j].matchDetails
                     v == raga.vaadi \in dominant
                     sv == raga.samvaadi \in dominant
                 IN /\ d.vaadiMatch = v
                    /\ d.samvaadiMatch = sv
                    /\ scores[j].score - d.noteOverlapScore - 20 * d.phraseMatches
                          = 10 * b2i(v) + 10 * b2i(sv)

\* four swaras sound and the fourth, Sa, misses the top three: durga's
\* samvaadi does not match while deshkar's vaadi and samvaadi both do
C17_Witness ==
    /\ analyzed
    /\ \E i \in 1..Len(noteStats) : noteStats[i].duration > 0 /\ C17_Rank(i) = 3
    /\ \E i, k \in 1..Len(noteStats) :
          i < k /\ noteStats[i].duration = noteStats[k].duration
                /\ noteStats[i].duration > 0
    /\ ~scoreEntry("durga").matchDetails.samvaadiMatch
    /\ scoreEntry("deshkar").matchDetails.vaadiMatch
    /\ scoreEntry("deshkar").matchDetails.samvaadiMatch
    /\ scoreEntry("deshkar").score > scoreEntry("durga").score + 10

----------------------------------------------------------------------------
(* Properties of the condensing step of processAudioData *)

\* the indices at which a maximal run of equal labels begins
runStarts(pd) == {i \in 1..Len(pd) : i = 1 \/ pd[i].note # pd[i - 1].note}

\* those of the runs that are not silence, in order
soundingStarts(pd) ==
    LET S == {i \in runStarts(pd) : pd[i].note # "-"}
    IN [k \in 1..Cardinality(S) |->
           CHOOSE i \in S : Cardinality({j \in S : j < i}) = k - 1]

\* the first index of the run after the one that begins at i (0 if none)
nextRunStart(pd, i) ==
    IF \E j \in runStarts(pd) : j > i
    THEN CHOOSE j \in runStarts(pd) :
            j > i /\ \A m \in runStarts(pd) : m > i => j <= m
    ELSE 0

\* C21: every maximal run of equal non-silent labels becomes exactly one
\* candidate note, in order; its timestamp is the time of the run's first
\* observation and, unless it is the final run, its duration is the time
\* of the next run's first observation minus that timestamp; runs of "-"
\* give no candidate.
C21_OneCandidatePerRun ==
    (processed /\ pitchData # <<>>) =>
        LET cand == condense(pitchData)
            starts == soundingStarts(pitchData)
        IN /\ Len(cand) = Len(starts)
           /\ \A k \in 1..Len(starts) :
                 LET i == starts[k]
                     nxt == nextRunStart(pitchData, i)
                 IN /\ cand[k].note = pitchData[i].note
                    /\ cand[k].timestamp = pitchData[i].time
                    /\ nxt # 0 =>
                          cand[k].duration = pitchData[nxt].time - pitchData[i].time

\* a run of two observations, then silence, then another sounding run
C21_Witness ==
    /\ processed
    /\ Len(pitchData) = 4
    /\ pitchData[1].note = pitchData[2].note
    /\ pitchData[1].note # "-"
    /\ pitchData[3].note = "-"
    /\ pitchData[4].note # "-"
    /\ Len(condense(pitchData)) = 2
    /\ condense(pitchData)[1].duration = pitchData[3].time - pitchData[1].time

\* the index at which the final run begins
finalRunStart(pd) == CHOOSE i \in runStarts(pd) : \A j \in runStarts(pd) : j <= i

\* C22: when the final run of a non-empty input is not silence, its
\* candidate note lasts max(50, time of the last observation - start of
\* the run): at least 50 ms, so it passes the 40 ms filter and is the last
\* note of the returned stream, even when the run is one observation.
C22_LastNoteAtLeastFifty ==
    (processed /\ pitchData # <<>> /\ pitchData[Len(pitchData)].note # "-") =>
        LET cand == condense(pitchData)
            last == cand[Len(cand)]
            start == pitchData[finalRunStart(pitchData)].time
        IN /\ cand # <<>>
           /\ last.note = pitchData[Len(pitchData)].note
           /\ last.timestamp = start
           /\ last.duration = Max(50, pitchData[Len(pitchData)].time - start)
           /\ last.duration >= 50
           /\ noteStream # <<>>
           /\ noteStream[Len(noteStream)] = last

\* the final run is a single observation after a run of another label: its
\* note lasts 50 ms although no time passed, and it is returned
C22_Witness ==
    /\ processed
    /\ Len(pitchData) >= 2
    /\ pitchData[Len(pitchData)].note # "-"
    /\ pitchData[Len(pitchData) - 1].note # pitchData[Len(pitchData)].note
    /\ noteStream # <<>>
    /\ noteStream[Len(noteStream)].duration = 50
    /\ noteStream[Len(noteStream)].timestamp = pitchData[Len(pitchData)].time

(* C24: for every NoteStat set produced by processAudioData and every raga *)
(* definition, the note-overlap contribution is at most +20.               *)
C24_OverlapAtMostTwenty ==
    analyzed =>
        \A j \in 1..Len(scores) : scores[j].matchDetails.noteOverlapScore <= 20

C26_OrderedDisjointNotes ==
    processed =>
        /\ \A i \in 1..(Len(noteStream) - 1) :
              LET a == noteStream[i]
                  b == noteStream[i + 1]
              IN /\ a.timestamp < b.timestamp
                 /\ a.timestamp + a.duration <= b.timestamp
                 /\ a.timestamp + a.duration <= pitchData[Len(pitchData)].time

\* two sounding observations with different labels share a time, and the
\* two notes returned abut
C26_Witness ==
    /\ processed
    /\ Len(noteStream) >= 2
    /\ \E k \in 1..(Len(pitchData) - 1) :
          /\ pitchData[k].time = pitchData[k + 1].time
          /\ pitchData[k].note # pitchData[k + 1].note
          /\ "-" \notin {pitchData[k].note, pitchData[k + 1].note}
    /\ noteStream[1].timestamp + noteStream[1].duration = noteStream[2].timestamp

\* the total duration of a swara in the note statistics (0 when the
\* statistics are empty)
durationOf(swara) ==
    SumSeq([i \in 1..Len(noteStats) |->
               IF noteStats[i].note = swara THEN noteStats[i].duration ELSE 0])

(* C27: vaadiMatch (samvaadiMatch) is true for a raga only if the raga's   *)
(* vaadi (samvaadi) has a strictly positive total duration in the note     *)
(* statistics: a swara that never sounded is never credited.               *)
C27_MatchedSwaraSounded ==
    analyzed =>
        \A j \in 1..Len(scores) :
            LET raga == ragaOf(scores[j].raga)
                d == scores[j].matchDetails
            IN /\ d.vaadiMatch => durationOf(raga.vaadi) > 0
               /\ d.samvaadiMatch => durationOf(raga.samvaadi) > 0

----------------------------------------------------------------------------
(* Properties of tonic detection *)

detected == phase = "detected"

\* the lowest index among the bins holding the greatest count
lowestGreatest(b) ==
    CHOOSE i \in 0..11 :
        /\ \A j \in 0..11 : b[j] <= b[i]
        /\ \A j \in 0..(i - 1) : b[j] < b[i]

(* C7: detectRootNoteFromPitchData returns the BASE_NOTES entry of the     *)
(* chroma bin with the greatest count, and of several bins sharing the     *)
(* greatest count the one with the lowest index.                           *)
C7_GreatestBinLowestIndex ==
    detected => detectedRoot = BASE_NOTES[lowestGreatest(bins) + 1]

\* A4 is seen before C#4, both once: C# (index 1) wins over A (index 9)
C7_Witness ==
    /\ detected
    /\ Len(rawPitchData) >= 2
    /\ rawPitchData[1].frequency = 44000
    /\ bins[1] = 1 /\ bins[9] = 1
    /\ \A c \in 0..11 : bins[c] <= 1
    /\ detectedRoot.name = "C#"

\* the observations strictly between 50 Hz and 1000 Hz
C8_Counted ==
    {i \in 1..Len(rawPitchData) :
        rawPitchData[i].frequency > 5000 /\ rawPitchData[i].frequency < 100000}

(* C8: an observation is counted only when its frequency is strictly       *)
(* above 50 Hz and strictly below 1000 Hz (50, 1000 and the sentinel -1    *)
(* are ignored); when nothing is counted the result is the first table     *)
(* entry, C at 261.63 Hz.                                                  *)
C8_StrictRangeAndDefault ==
    detected =>
        /\ \A c \in 0..11 :
              bins[c] = Cardinality({i \in C8_Counted :
                            chromaOf(rawPitchData[i].frequency) = c})
        /\ C8_Counted = {} => detectedRoot = [name |-> "C", freq |-> 26163]

\* 50 Hz, 1000 Hz and the sentinel were all offered and none was counted
C8_Witness ==
    /\ detected
    /\ {rawPitchData[i].frequency : i \in 1..Len(rawPitchData)}
          = {5000, 100000, Silence}
    /\ \A c \in 0..11 : bins[c] = 0
    /\ detectedRoot.name = "C"

----------------------------------------------------------------------------
(* Properties of note mapping *)

mapped == phase = "mapped"

(* C9: for an interval of k semitones (negative, zero or positive) above a *)
(* tonic t, pitchToNote(t * 2^(k/12), t) is the swara at table index       *)
(* k mod 12, an index in 0..11.                                            *)
C9_IntervalMapsToResidue ==
    mapped =>
        /\ (semitones % 12) \in 0..11
        /\ note = SWARA_MAPPING[(semitones % 12) + 1]

\* five semitones below the tonic is Pa
C9_Witness ==
    /\ mapped
    /\ semitones = -5
    /\ pitch < baseFreq
    /\ note = "Pa"

(* C10: for every frame and tonic the label pitchToNote(computePitch(frame,*)
(* sampleRate), tonic) is one of the 12 swara labels or "-", and it is "-" *)
(* whenever computePitch returned the sentinel -1.                         *)
C10_LabelIsSwaraOrDash ==
    mapped =>
        /\ note \in Swaras \cup {"-"}
        /\ pitch = Silence => note = "-"

----------------------------------------------------------------------------
(* Properties of the pitch estimator *)

\* computePitch has run on the frame
estimated == phase \in {"pitched", "mapped"} /\ frame # <<>>

\* the RMS energy of the frame is below 0.01: mean square below 0.0001
C11_BelowFloor ==
    10000 * SumSeq([i \in 1..Len(frame) |-> frame[i] * frame[i]])
        < Len(frame) * Unit * Unit

(* C11: computePitch returns -1 for every frame whose RMS energy is below  *)
(* 0.01, in particular for every all-zero frame of any length, and builds  *)
(* and reads no autocorrelation in that case.                              *)
C11_SilentBelowFloor ==
    estimated =>
        /\ C11_BelowFloor =>
              pitch = Silence /\ ~scan.correlated /\ scan.reads = {}
        /\ (\A i \in 1..Len(frame) : frame[i] = 0) => pitch = Silence

\* a frame that is not all zero and still below the floor
C11_Witness ==
    /\ estimated
    /\ C11_BelowFloor
    /\ \E i \in 1..Len(frame) : frame[i] # 0
    /\ pitch = Silence
    /\ ~scan.correlated

(* C12: whenever the trimmed buffer [r1, r2) of a non-silent frame has     *)
(* fewer than 3 samples, computePitch returns -1 and reads no              *)
(* autocorrelation entry outside the indices 0 .. len - 1.                 *)
C12_ShortTrimReturnsSilence ==
    (estimated /\ scan.correlated /\ scan.len < 3) =>
        /\ pitch = Silence
        /\ scan.reads \subseteq 0..(scan.len - 1)

(* C13: the local-minimum scan (while c[d] > c[d + 1]) never compares or   *)
(* advances past the last autocorrelation index, and when the              *)
(* autocorrelation has no local minimum before its end (the scan reaches   *)
(* the last index) the estimator returns -1 instead of a frequency.        *)
(* Stated for trimmed buffers of three or more samples; the shorter ones   *)
(* are C12's.                                                              *)
C13_ScanStaysInBounds ==
    (estimated /\ scan.correlated /\ scan.len >= 3) =>
        /\ scan.scanReads \subseteq 0..(scan.len - 1)
        /\ scan.d <= scan.len - 1
        /\ scan.d = scan.len - 1 => pitch = Silence

\* |x| exceeds the amplitude threshold 0.2
aboveThres(x) == 5 * Abs(x) > Unit

\* the first index of the first half whose sample exceeds the threshold,
\* 0 if none
firstLoud(buffer) ==
    LET hits == {i \in halfIndices(buffer, 0) : aboveThres(at0(buffer, i))}
    IN IF hits = {} THEN 0 ELSE CHOOSE i \in hits : \A h \in hits : i <= h

\* the first index, scanning backward from the end through the last half,
\* whose sample exceeds the threshold, N - 1 if none
lastLoud(buffer) ==
    LET N == Len(buffer)
        hits == {i \in halfIndices(buffer, 1) : aboveThres(at0(buffer, N - i))}
    IN IF hits = {} THEN N - 1
       ELSE N - (CHOOSE i \in hits : \A h \in hits : i <= h)

(* C23: r1 is the first index in the first half of the frame whose         *)
(* absolute sample value exceeds 0.2 (0 if none), r2 is the first such     *)
(* index scanning backward from the end (N - 1 if none), and the           *)
(* autocorrelation is computed over exactly the samples r1 .. r2 - 1.      *)
C23_TrimAtFirstLoudSample ==
    (estimated /\ scan.correlated) =>
        /\ scan.r1 = firstLoud(frame)
        /\ scan.r2 = lastLoud(frame)
        /\ scan.len = Max(0, scan.r2 - scan.r1)

----------------------------------------------------------------------------
(* Properties of analyzeAudioBuffer *)

\* a frame has been passed to computePitch
sliced == chunk # noChunk

----------------------------------------------------------------------------
(* Properties of the AudioRecorder *)

\* onProcessingComplete is invoked at most once for each started recording
C28_AtMostOneCompletion ==
    \A id \in 1..Len(recorder.calls) : recorder.calls[id].completions <= 1

\* once stopRecording has run, no step pushes a sample to the array in
\* rawDataRef.current, the one handed to onProcessingComplete
C28_NoSampleAfterStop ==
    (recorder.stopRan /\ recorder'.rawData.array = recorder.rawData.array)
        => recorder'.rawData.length = recorder.rawData.length

(* C28: for each started recording onProcessingComplete is invoked at most *)
(* once, however the auto-stop tick and the stop click interleave, and     *)
(* after stopRecording has run no further pitch sample is appended to the  *)
(* data handed to onProcessingComplete.                                    *)
C28_OneCompletionNoLateSample ==
    /\ []C28_AtMostOneCompletion
    /\ [][C28_NoSampleAfterStop]_vars

----------------------------------------------------------------------------
(* Properties of the App handlers *)

\* the tonic detectRootNoteFromPitchData finds for a clip (it reads the
\* frequencies only, not the labels)
detectedTonic(clip) ==
    detectRootNoteFromPitchData(analyzeAudioBuffer(clip, BASE_NOTES[1].freq)).root.freq

\* a finished run of analyzeSelectedStreams, started in automatic tonic
\* mode, on the audio of an input that was supplied in automatic tonic mode
autoScored(r) ==
    /\ runs[r].pc = "done"
    /\ runs[r].isAutoDetect
    /\ tasks[runs[r].sourceAudioBuffer].isAutoDetect

\* C19: in automatic tonic mode the tonic of a clip is detected once
\* before the clip is scored, and every label handed to processAudioData
\* and RagaEngine.analyze for that clip was computed by pitchToNote with
\* the frequency of the detected tonic.
C19_LabelsUseDetectedTonic ==
    \A r \in 1..Len(runs) :
        autoScored(r) =>
            LET input == tasks[runs[r].sourceAudioBuffer] IN
                /\ runs[r].detections = 1
                /\ runs[r].pitchData =
                      analyzeAudioBuffer(input.clip, detectedTonic(input.clip))

\* C20: no App handler rewrites a field of an existing pitch observation:
\* once a handler holds its pitch observations, every step leaves them as
\* they are.
C20_ObservationsNeverRewritten ==
    [][\A k \in 1..Len(tasks) :
          tasks[k].rawPitchData # <<>> =>
              tasks'[k].rawPitchData = tasks[k].rawPitchData]_vars

\* the state handleManualSaChange and resetApp leave behind
awaitingBaseNote ==
    /\ app.step = "SELECT_BASE_NOTE"
    /\ ~app.hasBaseNote
    /\ app.streams = <<>>
    /\ ~app.showSeparation

\* C29: after Change or Analyze Another the step stays SELECT_BASE_NOTE
\* with hasBaseNote false, no streams and showSeparation false until the
\* user picks a base note or auto-detect: no continuation or timer of an
\* earlier input moves the step or repopulates that state.
C29_ClearedUntilPick ==
    [][awaitingBaseNote =>
          \/ awaitingBaseNote'
          \/ handleBaseNoteSelect
          \/ handleAutoDetectSelect]_vars

\* C30: the results of every finished analyzeSelectedStreams run come from
\* the audio of the input supplied last before the run began, and at
\* RESULTS analysisResult and ragaScores are those of one run.
C30_ResultsFromLatestInput ==
    /\ \A r \in 1..Len(runs) :
          runs[r].pc = "done" => runs[r].sourceAudioBuffer = runs[r].latestInput
    /\ (app.step = "RESULTS" /\ app.analysisResult # <<>>) =>
          \E r \in 1..Len(runs) :
              /\ runs[r].pc = "done"
              /\ app.analysisResult[1].pitchData = runs[r].pitchData
              /\ app.ragaScores = analyze(app.analysisResult[1].noteStats,
                                          app.analysisResult[1].noteStream)

====
